---- MODULE Spec2Model ----
(***************************************************************************)
(* The fymoney escrow program (programs/fymoney/src/lib.rs) as a state     *)
(* machine.  One action per instruction (initialize_escrow, claim_escrow,  *)
(* reclaim_expired_escrow); each action covers the whole instruction: the  *)
(* account constraints of its #[derive(Accounts)] struct, the handler body *)
(* and the exit step (close = sender).  The ledger executes instructions   *)
(* one at a time and discards every effect of an instruction that returns  *)
(* Err, so concurrent callers are interleavings of these atomic actions.   *)
(***************************************************************************)
EXTENDS Integers, FiniteSets, Sequences, TLC

(* ------------------------------ bounds --------------------------------- *)

\* The clock ranges over 0..MaxTick and over THIRTY_DAYS and the second after
\* it, so an escrow is met at, before and one second after its expiry.
MaxTick == 1

\* Token units each funded wallet account holds initially.
InitBal == 1

\* Largest `amount` argument tried (above InitBal: the transfer can fail).
MaxAmount == 2

(* --------------------------- input domains ----------------------------- *)

\* Pubkeys of the signers.
Users == {"u1", "u2"}

\* Pubkeys that fund escrows (the `sender` signer of initialize_escrow).
Senders == {"u1"}

\* recipient_email_hash values.
Hashes == {"h1"}

\* The holders that send tokens to a custody account from outside the program.
Depositors == {"u2"}

\* token_mint accounts.
Mints == {"m1", "m2"}

\* `30 * 24 * 60 * 60`
THIRTY_DAYS == 30 * 24 * 60 * 60

Times == (0..MaxTick) \cup {THIRTY_DAYS, THIRTY_DAYS + 1}

\* expires_at arguments tried at clock reading t: both sides of `expires_at >
\* unix_timestamp` and of `expires_at <= max_expiration`.
ExpiryInputs(t) == {t, t + 1, t + THIRTY_DAYS, t + THIRTY_DAYS + 1}

Amounts == 0..MaxAmount

\* Option<Pubkey>::None
None == "none"

(* ------------------------------ addresses ------------------------------ *)

\* The escrow PDA: seeds = [b"escrow", sender, recipient_email_hash].
EscrowPda(sender, hash) == <<"escrow", sender, hash>>

Keys == {EscrowPda(s, h) : s \in Senders, h \in Hashes}

\* The wallet of a signer, as a token-account authority.
Wallet(u) == <<"wallet", u>>

\* associated_token::mint = mint, associated_token::authority = authority
Ata(authority, mint) == <<authority, mint>>

(* ------------------------------- state --------------------------------- *)

VARIABLES
    escrow,   \* the initialized EscrowAccount PDAs: a function Keys' subset -> record
    token,    \* the initialized token accounts: address -> balance
    now,      \* Clock::get()?.unix_timestamp
    hist,     \* per PDA: the statuses written by the instructions that returned Ok
    last,     \* the instruction executed last, its arguments and its result
    user_deposit,  \* yield_vault: the initialized UserDeposit PDAs, user -> record
    vault_account, \* yield_vault: whether the VaultAccount PDA is initialized
    paid      \* yield_vault: per user and mint, tokens sent to the vault minus
              \* tokens received from it

vars == <<escrow, token, now, hist, last, user_deposit, vault_account, paid>>

\* The state of the yield_vault program.
vaultVars == <<user_deposit, vault_account, paid>>

\* The accounts an instruction can read and write.
Ledger == [escrow |-> escrow, token |-> token]

Initialized(accts, a) == a \in DOMAIN accts

\* Write (or create) account a with value v.
Put(accts, a, v) == [x \in (DOMAIN accts) \cup {a} |-> IF x = a THEN v ELSE accts[x]]

\* Remove account a.
Drop(accts, a) == [x \in (DOMAIN accts) \ {a} |-> accts[x]]

(* --------------------------- EscrowAccount ----------------------------- *)

\* The bump of the PDA (ctx.bumps.escrow_account): a function of the seeds.
CanonicalBump(sender, hash) == 255

\* The account data right after the `init` constraint allocated it (zeroed).
ZeroedEscrow ==
    [ sender               |-> None,
      recipient_email_hash |-> None,
      recipient_wallet     |-> None,
      token_mint           |-> None,
      escrow_token_account |-> <<None, None>>,
      amount               |-> 0,
      created_at           |-> 0,
      expires_at           |-> 0,
      status               |-> "Active",
      bump                 |-> 0 ]

(* ------------------------ the token program ---------------------------- *)

\* token::transfer(ctx, amount): Err when the source holds less than amount.
TransferFails(tok, from, amount) == tok[from] < amount

Transfer(L, from, to, amount) ==
    IF TransferFails(L.token, from, amount)
    THEN [result |-> "InsufficientFunds", ledger |-> L]
    ELSE [result |-> "Ok",
          ledger |-> [L EXCEPT !.token =
                        [x \in DOMAIN L.token |->
                            IF x = from THEN L.token[x] - amount
                            ELSE IF x = to THEN L.token[x] + amount
                            ELSE L.token[x]]]]

\* Mutant: the writes made before the Err are kept.
CommitAlways(pre, out) == out.ledger

\* An instruction that returns Err leaves no effect: `?` propagates the Err out
\* of the handler and the ledger discards the instruction's writes.
Commit(pre, out) == IF out.result = "Ok" THEN out.ledger ELSE pre

(* -------------------------- initialize_escrow -------------------------- *)

\* #[derive(Accounts)] InitializeEscrow, constraints in field order.
EscrowInitFails(L, pda) == Initialized(L.escrow, pda)

CustodyInitFails(L, custody) == Initialized(L.token, custody)

InitializeEscrowAccounts(L, sender, hash, mint) ==
    LET pda     == EscrowPda(sender, hash)
        custody == Ata(pda, mint)
    IN  IF EscrowInitFails(L, pda)
        THEN [result |-> "AccountAlreadyInUse", ledger |-> L]
        ELSE IF CustodyInitFails(L, custody)
        THEN [result |-> "AccountAlreadyInUse", ledger |-> L]
        ELSE IF ~Initialized(L.token, Ata(Wallet(sender), mint))
        THEN [result |-> "AccountNotInitialized", ledger |-> L]
        ELSE [result |-> "Ok",
              ledger |-> [escrow |-> Put(L.escrow, pda, ZeroedEscrow),
                          token  |-> Put(L.token, custody, 0)]]

AmountValid(amount) == amount > 0

ExpirationInFuture(expires_at, unix_timestamp) == expires_at > unix_timestamp

max_expiration(unix_timestamp) == unix_timestamp + THIRTY_DAYS

\* Mutant: the upper limit of lines 28-29 left out.
ExpirationWithinMax_NoLimit(expires_at, unix_timestamp) == TRUE

ExpirationWithinMax(expires_at, unix_timestamp) ==
    expires_at <= max_expiration(unix_timestamp)

NewEscrow(sender, hash, mint, amount, expires_at, unix_timestamp) ==
    [ sender               |-> sender,
      recipient_email_hash |-> hash,
      recipient_wallet     |-> None,
      token_mint           |-> mint,
      escrow_token_account |-> Ata(EscrowPda(sender, hash), mint),
      amount               |-> amount,
      created_at           |-> unix_timestamp,
      expires_at           |-> expires_at,
      status               |-> "Active",
      bump                 |-> CanonicalBump(sender, hash) ]

\* Mutant: the handler without the transfer of lines 44-52.
initialize_escrow_handler_NoTransfer(L, sender, hash, mint, amount, expires_at, unix_timestamp) ==
    LET pda == EscrowPda(sender, hash)
        L1  == [L EXCEPT !.escrow = Put(L.escrow, pda,
                   NewEscrow(sender, hash, mint, amount, expires_at, unix_timestamp))]
    IN  IF ~AmountValid(amount)
        THEN [result |-> "InvalidAmount", ledger |-> L]
        ELSE IF ~ExpirationInFuture(expires_at, unix_timestamp)
        THEN [result |-> "InvalidExpiration", ledger |-> L]
        ELSE IF ~ExpirationWithinMax(expires_at, unix_timestamp)
        THEN [result |-> "ExpirationTooLong", ledger |-> L]
        ELSE [result |-> "Ok", ledger |-> L1]

\* The handler body, run on the accounts the constraints produced.
initialize_escrow_handler(L, sender, hash, mint, amount, expires_at, unix_timestamp) ==
    LET pda == EscrowPda(sender, hash)
        L1  == [L EXCEPT !.escrow = Put(L.escrow, pda,
                   NewEscrow(sender, hash, mint, amount, expires_at, unix_timestamp))]
    IN  IF ~AmountValid(amount)
        THEN [result |-> "InvalidAmount", ledger |-> L]
        ELSE IF ~ExpirationInFuture(expires_at, unix_timestamp)
        THEN [result |-> "InvalidExpiration", ledger |-> L]
        ELSE IF ~ExpirationWithinMax(expires_at, unix_timestamp)
        THEN [result |-> "ExpirationTooLong", ledger |-> L]
        ELSE Transfer(L1, Ata(Wallet(sender), mint), Ata(pda, mint), amount)

initialize_escrow(L, sender, hash, mint, amount, expires_at, unix_timestamp) ==
    LET a == InitializeEscrowAccounts(L, sender, hash, mint)
    IN  IF a.result # "Ok" THEN a
        ELSE initialize_escrow_handler(a.ledger, sender, hash, mint, amount,
                                       expires_at, unix_timestamp)

(* ----------------------------- claim_escrow ---------------------------- *)

\* #[derive(Accounts)] ClaimEscrow: the record and the presented custody account
\* must exist; the recipient's token account is created if needed.  token_mint
\* is whatever mint the caller presents.
ClaimEscrowAccounts(L, pda, recipient, mint) ==
    LET to == Ata(Wallet(recipient), mint)
    IN  IF ~Initialized(L.escrow, pda)
        THEN [result |-> "AccountNotInitialized", ledger |-> L]
        ELSE IF ~Initialized(L.token, Ata(pda, mint))
        THEN [result |-> "AccountNotInitialized", ledger |-> L]
        ELSE [result |-> "Ok",
              ledger |-> IF Initialized(L.token, to) THEN L
                         ELSE [L EXCEPT !.token = Put(L.token, to, 0)]]

\* Mutant: the status check of lines 72-75 left out.
IsActive_Always(e) == TRUE

IsActive(e) == e.status = "Active"

ClaimInTime(e, unix_timestamp) == unix_timestamp <= e.expires_at

RecipientMatches(e, recipient_wallet) ==
    e.recipient_wallet = None \/ e.recipient_wallet = recipient_wallet

\* Mutant: the handler without the record update of lines 95-100.
claim_escrow_handler_NoUpdate(L, pda, recipient, mint, unix_timestamp) ==
    LET e == L.escrow[pda]
    IN  IF ~IsActive(e)
        THEN [result |-> "EscrowNotActive", ledger |-> L]
        ELSE IF ~ClaimInTime(e, unix_timestamp)
        THEN [result |-> "EscrowExpired", ledger |-> L]
        ELSE IF ~RecipientMatches(e, recipient)
        THEN [result |-> "InvalidRecipient", ledger |-> L]
        ELSE Transfer(L, Ata(pda, mint), Ata(Wallet(recipient), mint), e.amount)

\* Mutant: the record update binds the recipient and leaves the status Active.
claim_escrow_handler_BindOnly(L, pda, recipient, mint, unix_timestamp) ==
    LET e  == L.escrow[pda]
        L1 == [L EXCEPT !.escrow = Put(L.escrow, pda,
                   [e EXCEPT !.recipient_wallet = recipient])]
    IN  IF ~IsActive(e)
        THEN [result |-> "EscrowNotActive", ledger |-> L]
        ELSE IF ~ClaimInTime(e, unix_timestamp)
        THEN [result |-> "EscrowExpired", ledger |-> L]
        ELSE IF ~RecipientMatches(e, recipient)
        THEN [result |-> "InvalidRecipient", ledger |-> L]
        ELSE Transfer(L1, Ata(pda, mint), Ata(Wallet(recipient), mint), e.amount)

\* Mutant: the record update also clears the amount paid out.
claim_escrow_handler_ClearAmount(L, pda, recipient, mint, unix_timestamp) ==
    LET e  == L.escrow[pda]
        L1 == [L EXCEPT !.escrow = Put(L.escrow, pda,
                   [e EXCEPT !.status = "Claimed", !.recipient_wallet = recipient,
                             !.amount = 0])]
    IN  IF ~IsActive(e)
        THEN [result |-> "EscrowNotActive", ledger |-> L]
        ELSE IF ~ClaimInTime(e, unix_timestamp)
        THEN [result |-> "EscrowExpired", ledger |-> L]
        ELSE IF ~RecipientMatches(e, recipient)
        THEN [result |-> "InvalidRecipient", ledger |-> L]
        ELSE Transfer(L1, Ata(pda, mint), Ata(Wallet(recipient), mint), e.amount)

claim_escrow_handler(L, pda, recipient, mint, unix_timestamp) ==
    LET e  == L.escrow[pda]
        L1 == [L EXCEPT !.escrow = Put(L.escrow, pda,
                   [e EXCEPT !.status = "Claimed", !.recipient_wallet = recipient])]
    IN  IF ~IsActive(e)
        THEN [result |-> "EscrowNotActive", ledger |-> L]
        ELSE IF ~ClaimInTime(e, unix_timestamp)
        THEN [result |-> "EscrowExpired", ledger |-> L]
        ELSE IF ~RecipientMatches(e, recipient)
        THEN [result |-> "InvalidRecipient", ledger |-> L]
        ELSE Transfer(L1, Ata(pda, mint), Ata(Wallet(recipient), mint), e.amount)

claim_escrow(L, pda, recipient, mint, unix_timestamp) ==
    LET a == ClaimEscrowAccounts(L, pda, recipient, mint)
    IN  IF a.result # "Ok" THEN a
        ELSE claim_escrow_handler(a.ledger, pda, recipient, mint, unix_timestamp)

(* ------------------------ reclaim_expired_escrow ----------------------- *)

\* #[derive(Accounts)] ReclaimExpiredEscrow: the record, the presented custody
\* account and the signer's own token account for the presented mint must exist.
ReclaimExpiredEscrowAccounts(L, pda, sender, mint) ==
    IF ~Initialized(L.escrow, pda)
    THEN [result |-> "AccountNotInitialized", ledger |-> L]
    ELSE IF ~Initialized(L.token, Ata(pda, mint))
    THEN [result |-> "AccountNotInitialized", ledger |-> L]
    ELSE IF ~Initialized(L.token, Ata(Wallet(sender), mint))
    THEN [result |-> "AccountNotInitialized", ledger |-> L]
    ELSE [result |-> "Ok", ledger |-> L]

\* Mutant: the expiry instant itself counts as expired.
ReclaimAfterExpiry_AtExpiry(e, unix_timestamp) == unix_timestamp >= e.expires_at

ReclaimAfterExpiry(e, unix_timestamp) == unix_timestamp > e.expires_at

\* Mutant: the sender check left out.
IsSender_Anyone(e, sender) == TRUE

IsSender(e, sender) == sender = e.sender

reclaim_expired_escrow_handler(L, pda, sender, mint, unix_timestamp) ==
    LET e  == L.escrow[pda]
        L1 == [L EXCEPT !.escrow = Put(L.escrow, pda, [e EXCEPT !.status = "Expired"])]
    IN  IF ~IsActive(e)
        THEN [result |-> "EscrowNotActive", ledger |-> L]
        ELSE IF ~ReclaimAfterExpiry(e, unix_timestamp)
        THEN [result |-> "EscrowNotExpired", ledger |-> L]
        ELSE IF ~IsSender(e, sender)
        THEN [result |-> "UnauthorizedSender", ledger |-> L]
        ELSE Transfer(L1, Ata(pda, mint), Ata(Wallet(sender), mint), e.amount)

\* `close = sender`: when the handler returned Ok the record's storage is freed.
CloseEscrow(out, pda) ==
    IF out.result = "Ok"
    THEN [out EXCEPT !.ledger.escrow = Drop(out.ledger.escrow, pda)]
    ELSE out

reclaim_expired_escrow(L, pda, sender, mint, unix_timestamp) ==
    LET a == ReclaimExpiredEscrowAccounts(L, pda, sender, mint)
    IN  IF a.result # "Ok" THEN a
        ELSE CloseEscrow(
                reclaim_expired_escrow_handler(a.ledger, pda, sender, mint, unix_timestamp),
                pda)

(* ------------------------------ actions -------------------------------- *)

Call(op, pda, signer, mint, amount, expires_at, result) ==
    [op |-> op, pda |-> pda, signer |-> signer, mint |-> mint, amount |-> amount,
     expires_at |-> expires_at, result |-> result]

NoPda == <<None, None, None>>

\* The token accounts that exist at the start: u1 holds both mints, u2 holds m2
\* only (its m1 account is opened by the first claim it makes of an m1 escrow).
FundedAtStart ==
    {Ata(Wallet("u1"), m) : m \in Mints} \cup {Ata(Wallet("u2"), "m2")}

Init ==
    /\ escrow = [x \in {} |-> ZeroedEscrow]
    /\ token = [a \in FundedAtStart |-> InitBal]
    /\ now = 0
    /\ hist = [k \in Keys |-> <<>>]
    /\ last = Call("none", NoPda, None, None, 0, 0, "Ok")
    /\ user_deposit = [x \in {} |-> [user |-> None, amount |-> 0]]
    /\ vault_account = FALSE
    /\ paid = [u \in Users |-> [m \in Mints |-> 0]]

\* The status an instruction wrote, appended to the PDA's history when the
\* instruction returned Ok (escrow.status = ... in each handler).
Written(out, pda, status) ==
    IF out.result = "Ok" THEN [hist EXCEPT ![pda] = Append(@, status)] ELSE hist

InitializeEscrow(sender, hash, mint, amount, expires_at) ==
    LET out == initialize_escrow(Ledger, sender, hash, mint, amount, expires_at, now)
        L2  == Commit(Ledger, out)
    IN  /\ escrow' = L2.escrow
        /\ token' = L2.token
        /\ hist' = Written(out, EscrowPda(sender, hash), "Active")
        /\ last' = Call("initialize_escrow", EscrowPda(sender, hash), sender, mint,
                        amount, expires_at, out.result)
        /\ UNCHANGED <<now, vaultVars>>

ClaimEscrow(pda, recipient, mint) ==
    LET out == claim_escrow(Ledger, pda, recipient, mint, now)
        L2  == Commit(Ledger, out)
    IN  /\ escrow' = L2.escrow
        /\ token' = L2.token
        /\ hist' = Written(out, pda, "Claimed")
        /\ last' = Call("claim_escrow", pda, recipient, mint, 0, 0, out.result)
        /\ UNCHANGED <<now, vaultVars>>

ReclaimExpiredEscrow(pda, sender, mint) ==
    LET out == reclaim_expired_escrow(Ledger, pda, sender, mint, now)
        L2  == Commit(Ledger, out)
    IN  /\ escrow' = L2.escrow
        /\ token' = L2.token
        /\ hist' = Written(out, pda, "Expired")
        /\ last' = Call("reclaim_expired_escrow", pda, sender, mint, 0, 0, out.result)
        /\ UNCHANGED <<now, vaultVars>>

\* The clock sysvar advances between instructions.
Tick ==
    /\ \E t \in Times : t > now /\ now' = t
    /\ last' = Call("tick", NoPda, None, None, 0, 0, "Ok")
    /\ UNCHANGED <<escrow, token, hist, vaultVars>>

\* Any holder may send tokens to the associated token account of any address,
\* a PDA of this program included, opening that account first if need be: the
\* custody account ClaimEscrow and ReclaimExpiredEscrow accept is whichever
\* token account of the PDA exists for the presented mint.
ExternalDeposit(user, pda, mint, amount) ==
    LET from == Ata(Wallet(user), mint)
        to   == Ata(pda, mint)
        L1   == [Ledger EXCEPT !.token =
                    IF Initialized(token, to) THEN token ELSE Put(token, to, 0)]
    IN  /\ Initialized(token, from)
        /\ amount > 0
        /\ token[from] >= amount
        /\ token' = Transfer(L1, from, to, amount).ledger.token
        /\ last' = Call("deposit", pda, user, mint, amount, 0, "Ok")
        /\ UNCHANGED <<escrow, now, hist, vaultVars>>

Next ==
    \/ \E s \in Senders, h \in Hashes, m \in Mints, a \in Amounts, x \in ExpiryInputs(now) :
          InitializeEscrow(s, h, m, a, x)
    \/ \E k \in Keys, u \in Users, m \in Mints : ClaimEscrow(k, u, m)
    \/ \E k \in Keys, u \in Users, m \in Mints : ReclaimExpiredEscrow(k, u, m)
    \/ Tick
    \/ \E u \in Depositors, k \in Keys, m \in Mints, a \in Amounts : ExternalDeposit(u, k, m, a)

Spec == Init /\ [][Next]_vars

(* ============================ yield_vault ============================== *)
(* programs/yield_vault/src/lib.rs: the pooled-deposit ledger.             *)

\* seeds = [b"user_deposit", user]
UserDepositPda(user) == <<"user_deposit", user>>

\* seeds = [b"vault"]
VaultPda == <<"vault">>

\* The accounts a yield_vault instruction can read and write.
VaultLedger ==
    [token |-> token, user_deposit |-> user_deposit, vault_account |-> vault_account]

\* The UserDeposit data right after init_if_needed allocated it (zeroed).
ZeroedUserDeposit == [user |-> None, amount |-> 0]

\* #[derive(Accounts)] Deposit, constraints in field order: the deposit record,
\* the vault PDA and the vault's token account for the presented mint are
\* created if needed; the user's token account for that mint must exist.
DepositAccounts(L, user, mint) ==
    LET vault_token_account == Ata(VaultPda, mint)
    IN  IF ~Initialized(L.token, Ata(Wallet(user), mint))
        THEN [result |-> "AccountNotInitialized", ledger |-> L]
        ELSE [result |-> "Ok",
              ledger |->
                [token |-> IF Initialized(L.token, vault_token_account) THEN L.token
                           ELSE Put(L.token, vault_token_account, 0),
                 user_deposit |->
                           IF Initialized(L.user_deposit, user) THEN L.user_deposit
                           ELSE Put(L.user_deposit, user, ZeroedUserDeposit),
                 vault_account |-> TRUE]]

deposit_handler(L, user, mint, amount) ==
    LET d  == L.user_deposit[user]
        L1 == [L EXCEPT !.user_deposit = Put(L.user_deposit, user,
                   [user |-> user, amount |-> d.amount + amount])]
    IN  IF ~AmountValid(amount)
        THEN [result |-> "InvalidAmount", ledger |-> L]
        ELSE Transfer(L1, Ata(Wallet(user), mint), Ata(VaultPda, mint), amount)

deposit(L, user, mint, amount) ==
    LET a == DepositAccounts(L, user, mint)
    IN  IF a.result # "Ok" THEN a ELSE deposit_handler(a.ledger, user, mint, amount)

\* #[derive(Accounts)] Withdraw: every account must exist already.
WithdrawAccounts(L, user, mint) ==
    IF \/ ~Initialized(L.user_deposit, user)
       \/ ~Initialized(L.token, Ata(Wallet(user), mint))
       \/ ~L.vault_account
       \/ ~Initialized(L.token, Ata(VaultPda, mint))
    THEN [result |-> "AccountNotInitialized", ledger |-> L]
    ELSE [result |-> "Ok", ledger |-> L]

\* require!(user_deposit.amount >= amount, VaultError::InsufficientFunds)
HasRecordedFunds(d, amount) == d.amount >= amount

withdraw_handler(L, user, mint, amount) ==
    LET d  == L.user_deposit[user]
        L1 == [L EXCEPT !.user_deposit = Put(L.user_deposit, user,
                   [d EXCEPT !.amount = d.amount - amount])]
    IN  IF ~AmountValid(amount)
        THEN [result |-> "InvalidAmount", ledger |-> L]
        ELSE IF ~HasRecordedFunds(d, amount)
        THEN [result |-> "InsufficientFunds", ledger |-> L]
        ELSE LET t == Transfer(L1, Ata(VaultPda, mint), Ata(Wallet(user), mint), amount)
             IN  IF t.result = "Ok" THEN t
                 ELSE [result |-> "TokenInsufficientFunds", ledger |-> L]

withdraw(L, user, mint, amount) ==
    LET a == WithdrawAccounts(L, user, mint)
    IN  IF a.result # "Ok" THEN a ELSE withdraw_handler(a.ledger, user, mint, amount)

\* paid after `user` moved `amount` of `mint` into the vault (negative: out).
Moved(out, user, mint, amount) ==
    IF out.result = "Ok" THEN [paid EXCEPT ![user][mint] = @ + amount] ELSE paid

Deposit(user, mint, amount) ==
    LET out == deposit(VaultLedger, user, mint, amount)
        L2  == Commit(VaultLedger, out)
    IN  /\ token' = L2.token
        /\ user_deposit' = L2.user_deposit
        /\ vault_account' = L2.vault_account
        /\ paid' = Moved(out, user, mint, amount)
        /\ last' = Call("deposit", UserDepositPda(user), user, mint, amount, 0, out.result)
        /\ UNCHANGED <<escrow, now, hist>>

Withdraw(user, mint, amount) ==
    LET out == withdraw(VaultLedger, user, mint, amount)
        L2  == Commit(VaultLedger, out)
    IN  /\ token' = L2.token
        /\ user_deposit' = L2.user_deposit
        /\ vault_account' = L2.vault_account
        /\ paid' = Moved(out, user, mint, 0 - amount)
        /\ last' = Call("withdraw", UserDepositPda(user), user, mint, amount, 0, out.result)
        /\ UNCHANGED <<escrow, now, hist>>

VaultNext ==
    \/ \E u \in Users, m \in Mints, a \in Amounts : Deposit(u, m, a)
    \/ \E u \in Users, m \in Mints, a \in Amounts : Withdraw(u, m, a)

VaultSpec == Init /\ [][VaultNext]_vars

(* ------------------------- reading the state --------------------------- *)

\* The status the record of a PDA reached last ("None": never created).
Status(k) == IF hist[k] = <<>> THEN "None" ELSE hist[k][Len(hist[k])]

\* The instruction executed by the step, as seen from the state before it.
Did(op, k) == last'.op = op /\ last'.pda = k

\* The record of k is stored, Active, unbound and not past its expiry.
Claimable(k) ==
    /\ Initialized(escrow, k)
    /\ escrow[k].status = "Active"
    /\ escrow[k].recipient_wallet = None
    /\ now <= escrow[k].expires_at

\* The step changed neither a record nor a balance.
NoEffect == escrow' = escrow /\ token' = token

(* -------------------------------- C1 ----------------------------------- *)

Exits(h) == Cardinality({i \in 1..Len(h) : h[i] \in {"Claimed", "Expired"}})

\* C2: the status of the record of a key changes only None -> Active,
\* Active -> Claimed or Active -> Expired, so Claimed and Expired are never
\* left, and at most one claim or reclaim ever succeeds for the key.
C2_TerminalOnce ==
    [][\A k \in Keys :
        /\ Status(k)' # Status(k) =>
              <<Status(k), Status(k)'>> \in
                 {<<"None", "Active">>, <<"Active", "Claimed">>, <<"Active", "Expired">>}
        /\ Exits(hist'[k]) <= 1
      ]_vars

(* -------------------------------- C3 ----------------------------------- *)

\* C3: a claim or reclaim that returns Ok presents the mint stored in the
\* record and moves the amount out of the custody account stored in the record;
\* one that presents another mint fails and changes nothing.
C3_StoredAssetOnly ==
    [][\A k \in Keys :
        ( /\ Did("claim_escrow", k) \/ Did("reclaim_expired_escrow", k)
          /\ Initialized(escrow, k) ) =>
            /\ last'.result = "Ok" =>
                  /\ last'.mint = escrow[k].token_mint
                  /\ token'[escrow[k].escrow_token_account] =
                        token[escrow[k].escrow_token_account] - escrow[k].amount
            /\ last'.mint # escrow[k].token_mint =>
                  /\ last'.result # "Ok"
                  /\ NoEffect
      ]_vars

(* -------------------------------- C4 ----------------------------------- *)

\* The record of k is stored and Active.
StoredActive(k) == Initialized(escrow, k) /\ escrow[k].status = "Active"

\* C4: a reclaim returns Ok only for the signer that is the record's sender, and
\* then the only balance that grows is the sender's own token account, by the
\* record's amount; on an Active record past its expiry a reclaim by anyone
\* else fails and changes nothing, with UnauthorizedSender whenever the accounts
\* it presents pass the account constraints.
C4_ReclaimSenderOnly ==
    [][\A k \in Keys : Did("reclaim_expired_escrow", k) =>
        /\ last'.result = "Ok" =>
              /\ Initialized(escrow, k)
              /\ last'.signer = escrow[k].sender
              /\ token'[Ata(Wallet(escrow[k].sender), last'.mint)] =
                    token[Ata(Wallet(escrow[k].sender), last'.mint)] + escrow[k].amount
              /\ \A a \in DOMAIN token' :
                    (a \notin DOMAIN token \/ token'[a] > token[a]) =>
                        a = Ata(Wallet(escrow[k].sender), last'.mint)
        /\ ( /\ StoredActive(k)
             /\ now > escrow[k].expires_at
             /\ last'.signer # escrow[k].sender ) =>
              /\ last'.result # "Ok"
              /\ NoEffect
              /\ ReclaimExpiredEscrowAccounts(Ledger, k, last'.signer, last'.mint).result = "Ok"
                    => last'.result = "UnauthorizedSender"
      ]_vars

\* A reclaim by someone other than the sender, after the expiry, rejected.
C4_Witness ==
    \E k \in Keys :
        /\ last.op = "reclaim_expired_escrow" /\ last.pda = k
        /\ last.result = "UnauthorizedSender"
        /\ StoredActive(k)
        /\ now > escrow[k].expires_at
        /\ last.signer # escrow[k].sender

(* -------------------------------- C5 ----------------------------------- *)

\* C5: on an Active record the clock reading of the instruction decides.  A
\* reclaim at now <= expires_at fails and changes nothing whoever signs, with
\* EscrowNotExpired whenever its accounts pass the constraints; a claim at
\* now > expires_at fails and changes nothing whoever signs, with EscrowExpired
\* whenever its accounts pass the constraints; a claim at now = expires_at is
\* not rejected as expired, and succeeds when it presents the record's mint.
C5_TimeWindow ==
    [][\A k \in Keys : StoredActive(k) =>
        /\ (Did("reclaim_expired_escrow", k) /\ now <= escrow[k].expires_at) =>
              /\ last'.result # "Ok"
              /\ NoEffect
              /\ ReclaimExpiredEscrowAccounts(Ledger, k, last'.signer, last'.mint).result = "Ok"
                    => last'.result = "EscrowNotExpired"
        /\ (Did("claim_escrow", k) /\ now > escrow[k].expires_at) =>
              /\ last'.result # "Ok"
              /\ NoEffect
              /\ ClaimEscrowAccounts(Ledger, k, last'.signer, last'.mint).result = "Ok"
                    => last'.result = "EscrowExpired"
        /\ (Did("claim_escrow", k) /\ now = escrow[k].expires_at) =>
              /\ last'.result # "EscrowExpired"
              /\ last'.mint = escrow[k].token_mint => last'.result = "Ok"
      ]_vars

\* The sender itself reclaiming exactly at expires_at, rejected.
C5_Witness ==
    \E k \in Keys :
        /\ last.op = "reclaim_expired_escrow" /\ last.pda = k
        /\ last.result = "EscrowNotExpired"
        /\ StoredActive(k)
        /\ now = escrow[k].expires_at
        /\ last.signer = escrow[k].sender

(* -------------------------------- C6 ----------------------------------- *)

Instructions == {"initialize_escrow", "claim_escrow", "reclaim_expired_escrow"}

Funded(c) ==
    /\ Initialized(token, Ata(Wallet(c.signer), c.mint))
    /\ token[Ata(Wallet(c.signer), c.mint)] >= c.amount

\* C7: a create with amount = 0 fails with InvalidAmount, one with
\* expires_at <= now fails with InvalidExpiration, one with expires_at >
\* now + 30 days fails with ExpirationTooLong, each without any effect; and
\* with a funded sender and no record stored for the key, a create with
\* amount > 0 and now < expires_at <= now + 30 days succeeds.  The three codes
\* are asked for only of calls that reach the handler, the success of every
\* call on a key without a record.
C7_CreateValidation ==
    [][\A k \in Keys : (Did("initialize_escrow", k) /\ ~Initialized(escrow, k)) =>
        /\ ~Initialized(token, Ata(k, last'.mint)) =>
            /\ last'.amount = 0 =>
                  last'.result = "InvalidAmount" /\ NoEffect
            /\ (last'.amount > 0 /\ last'.expires_at <= now) =>
                  last'.result = "InvalidExpiration" /\ NoEffect
            /\ (last'.amount > 0 /\ last'.expires_at > now + THIRTY_DAYS) =>
                  last'.result = "ExpirationTooLong" /\ NoEffect
        /\ ( /\ Funded(last')
             /\ last'.amount > 0
             /\ now < last'.expires_at
             /\ last'.expires_at <= now + THIRTY_DAYS ) =>
                  last'.result = "Ok"
      ]_vars

(* -------------------------------- C8 ----------------------------------- *)

\* C8: a create for a key that already has a record, whatever status the
\* record has reached, is rejected and changes no record and no balance; no
\* key has more than one record.  The claim names the code AlreadyExists, which
\* the program does not declare; any rejection is accepted here.
C8_ExistingKeyRejected ==
    [][/\ \A k \in Keys : (Did("initialize_escrow", k) /\ Status(k) # "None") =>
            /\ last'.result # "Ok"
            /\ NoEffect
       /\ \A k \in DOMAIN escrow' :
            EscrowPda(escrow'[k].sender, escrow'[k].recipient_email_hash) = k
      ]_vars

(* -------------------------------- C9 ----------------------------------- *)

\* The record of key k has been reclaimed at some point.
Reclaimed(k) == \E i \in 1..Len(hist[k]) : hist[k][i] = "Expired"

\* C9: once the record of a key has been reclaimed, a claim on that key is
\* rejected and moves no funds.  The claim names the code EscrowExpired; a
\* claim that finds the record closed is rejected at account loading, and any
\* rejection is accepted here.
C9_LateClaimRejected ==
    [][\A k \in Keys : (Did("claim_escrow", k) /\ Reclaimed(k)) =>
            /\ last'.result # "Ok"
            /\ NoEffect
      ]_vars

(* -------------------------------- C10 ---------------------------------- *)

\* C10: once the record of a key has reached Claimed or Expired, no step
\* yields an Active record for that key.
C10_NoRegression ==
    [][\A k \in Keys :
        Status(k) \in {"Claimed", "Expired"} =>
            /\ Status(k)' # "Active"
            /\ ~(Initialized(escrow', k) /\ escrow'[k].status = "Active")
      ]_vars

(* -------------------------------- C11 ---------------------------------- *)

\* The record of k is stored, Claimed and bound to claimant u.
ClaimedBy(k, u) ==
    /\ Initialized(escrow, k)
    /\ escrow[k].status = "Claimed"
    /\ escrow[k].recipient_wallet = u

\* C11: after a successful claim by a claimant, every further claim on the
\* record by the same claimant is rejected, moves no funds and leaves the
\* record as it is, so repeating it gives the same outcome: EscrowNotActive
\* whenever the custody account it presents exists, and a rejection at account
\* loading otherwise.
C11_ReclaimByWinnerRejected ==
    [][\A k \in Keys : (Did("claim_escrow", k) /\ ClaimedBy(k, last'.signer)) =>
            /\ NoEffect
            /\ hist' = hist
            /\ escrow'[k] = escrow[k]
            /\ last'.result =
                  IF Initialized(token, Ata(k, last'.mint))
                  THEN "EscrowNotActive" ELSE "AccountNotInitialized"
      ]_vars

\* The winner of the record claims it again with the record's mint.
C11_Witness ==
    \E k \in Keys :
        /\ last.op = "claim_escrow" /\ last.pda = k
        /\ last.result = "EscrowNotActive"
        /\ ClaimedBy(k, last.signer)
        /\ last.mint = escrow[k].token_mint
        /\ token[Ata(Wallet(last.signer), last.mint)] >= escrow[k].amount

(* -------------------------------- C12 ---------------------------------- *)

\* The balance of a token account (0 while the account is not opened).
Balance(tok, a) == IF Initialized(tok, a) THEN tok[a] ELSE 0

\* C12: on an Active record not past its expiry a claim by any claimant
\* succeeds, and after a successful claim the record is Claimed and bound to the
\* claimant, the record's amount has left the record's custody account, the
\* claimant's balance of the record's asset has grown by exactly the amount, and
\* the balance of a sender other than the claimant is unchanged.  Success is
\* asked of the claims that present the record's mint; the custody balance is
\* read as lowered by the amount (tokens others sent to it stay there).
C12_ClaimPaysClaimant ==
    [][\A k \in Keys : (Did("claim_escrow", k) /\ Claimable(k)) =>
        LET e       == escrow[k]
            claimer == Ata(Wallet(last'.signer), e.token_mint)
            funder  == Ata(Wallet(e.sender), e.token_mint)
        IN  /\ last'.mint = e.token_mint => last'.result = "Ok"
            /\ last'.result = "Ok" =>
                  /\ escrow'[k].status = "Claimed"
                  /\ escrow'[k].recipient_wallet = last'.signer
                  /\ token'[e.escrow_token_account] =
                        token[e.escrow_token_account] - e.amount
                  /\ Balance(token', claimer) = Balance(token, claimer) + e.amount
                  /\ last'.signer # e.sender =>
                        Balance(token', funder) = Balance(token, funder)
      ]_vars

(* -------------------------------- C13 ---------------------------------- *)

\* C13: on an Active record past its expiry a reclaim by the record's sender
\* succeeds, and after a successful reclaim the key's status is Expired, the
\* record's amount has left the record's custody account, the sender's balance
\* of the record's asset has grown by exactly the amount, and no recipient was
\* bound.  Success is asked of the reclaims that present the record's mint; the
\* custody balance is read as lowered by the amount.
C13_ReclaimRefundsSender ==
    [][\A k \in Keys :
        ( /\ Did("reclaim_expired_escrow", k)
          /\ StoredActive(k)
          /\ now > escrow[k].expires_at
          /\ last'.signer = escrow[k].sender ) =>
        LET e      == escrow[k]
            funder == Ata(Wallet(e.sender), e.token_mint)
        IN  /\ last'.mint = e.token_mint => last'.result = "Ok"
            /\ last'.result = "Ok" =>
                  /\ Status(k)' = "Expired"
                  /\ Initialized(escrow', k) => escrow'[k].recipient_wallet = None
                  /\ token'[e.escrow_token_account] =
                        token[e.escrow_token_account] - e.amount
                  /\ Balance(token', funder) = Balance(token, funder) + e.amount
      ]_vars

(* -------------------------------- C14 ---------------------------------- *)

\* C14: right after a successful create the new record is Active and unbound,
\* the custody account holds exactly the amount, and the sender's balance has
\* fallen by exactly the amount.
C14_CreateLocksAmount ==
    [][\A k \in Keys : (Did("initialize_escrow", k) /\ last'.result = "Ok") =>
        LET funder  == Ata(Wallet(last'.signer), last'.mint)
            custody == Ata(k, last'.mint)
        IN  /\ ~Initialized(escrow, k)
            /\ Initialized(escrow', k)
            /\ escrow'[k].status = "Active"
            /\ escrow'[k].recipient_wallet = None
            /\ escrow'[k].amount = last'.amount
            /\ escrow'[k].escrow_token_account = custody
            /\ token'[custody] = last'.amount
            /\ token'[funder] = token[funder] - last'.amount
            /\ Status(k)' = "Active"
      ]_vars

\* A create that succeeded: the amount sits in custody.
C14_Witness ==
    \E k \in Keys :
        /\ last.op = "initialize_escrow" /\ last.pda = k
        /\ last.result = "Ok"
        /\ last.amount > 0
        /\ Initialized(escrow, k)
        /\ escrow[k].status = "Active"
        /\ token[escrow[k].escrow_token_account] = last.amount

(* -------------------------------- C15 ---------------------------------- *)

\* The recorded balance of a user (0 while the user has no deposit record).
Recorded(ud, user) == IF Initialized(ud, user) THEN ud[user].amount ELSE 0

\* The step changed no deposit record and no balance.
VaultNoEffect == user_deposit' = user_deposit /\ token' = token

\* C15: a withdraw of more than the caller's recorded balance fails with
\* InsufficientFunds and changes neither the recorded balance nor a token
\* balance; a withdraw of at most the recorded balance lowers it by exactly
\* the amount; the recorded balance is never negative.  Asked of the withdraws
\* whose accounts all exist.
C15_WithdrawWithinRecorded ==
    [][\A u \in Users :
        ( /\ last'.op = "withdraw" /\ last'.signer = u
          /\ WithdrawAccounts(VaultLedger, u, last'.mint).result = "Ok" ) =>
            /\ last'.amount > Recorded(user_deposit, u) =>
                  last'.result = "InsufficientFunds" /\ VaultNoEffect
            /\ last'.amount <= Recorded(user_deposit, u) =>
                  Recorded(user_deposit', u) = Recorded(user_deposit, u) - last'.amount
            /\ Recorded(user_deposit', u) >= 0
      ]_vars

(* -------------------------------- C20 ---------------------------------- *)

RECURSIVE SumOver(_, _)
\* The sum of f[x] over the x in S.
SumOver(S, f) ==
    IF S = {} THEN 0
    ELSE LET x == CHOOSE y \in S : TRUE IN f[x] + SumOver(S \ {x}, f)

\* C20: whatever deposits and withdraws succeeded or failed, the recorded
\* balances of all users add up to what the vault holds (over its token
\* accounts), each user's recorded balance is what that user deposited minus
\* what it withdrew, and no user has taken out of the vault more of an asset
\* than it put in.
C20_PooledLedgerSound ==
    /\ SumOver(Users, [u \in Users |-> Recorded(user_deposit, u)]) =
          SumOver(Mints, [m \in Mints |-> Balance(token, Ata(VaultPda, m))])
    /\ \A u \in Users : Recorded(user_deposit, u) = SumOver(Mints, paid[u])
    /\ \A u \in Users, m \in Mints : paid[u][m] >= 0

(* -------------------------------- C16 ---------------------------------- *)

\* The fields of a record that create writes and nothing else may change.
CreationFields(e) ==
    <<e.sender, e.recipient_email_hash, e.token_mint, e.escrow_token_account,
      e.amount, e.created_at, e.expires_at, e.bump>>

\* C16: the creation-time fields of a record are those its create wrote and
\* no later step changes them while the record is stored; a recipient, once
\* bound, is never replaced by another identity.
C16_CreationFieldsFrozen ==
    [][\A k \in Keys :
        /\ (Initialized(escrow, k) /\ Initialized(escrow', k)) =>
              /\ CreationFields(escrow'[k]) = CreationFields(escrow[k])
              /\ escrow[k].recipient_wallet # None =>
                    escrow'[k].recipient_wallet = escrow[k].recipient_wallet
        /\ (~Initialized(escrow, k) /\ Initialized(escrow', k)) =>
              /\ Did("initialize_escrow", k)
              /\ escrow'[k] = NewEscrow(k[2], k[3], last'.mint, last'.amount,
                                        last'.expires_at, now)
      ]_vars

\* A claim succeeded on a record: it is bound, and still carries the amount
\* and the expiry its create wrote.
C16_Witness ==
    \E k \in Keys :
        /\ last.op = "claim_escrow" /\ last.pda = k /\ last.result = "Ok"
        /\ escrow[k].status = "Claimed"
        /\ escrow[k].recipient_wallet = last.signer
        /\ escrow[k].amount > 0
        /\ escrow[k].expires_at > escrow[k].created_at

(* -------------------------------- C17 ---------------------------------- *)

\* C17: every stored record has amount > 0 and
\* created_at < expires_at <= created_at + 30 days (2,592,000 seconds).
C17_RecordWellFormed ==
    \A k \in DOMAIN escrow :
        /\ escrow[k].amount > 0
        /\ escrow[k].expires_at > escrow[k].created_at
        /\ escrow[k].expires_at <= escrow[k].created_at + 2592000

\* A record created after time 0 at the upper limit, exactly 30 days ahead.
C17_Witness ==
    \E k \in DOMAIN escrow :
        /\ escrow[k].amount > 0
        /\ escrow[k].expires_at = escrow[k].created_at + 2592000
        /\ escrow[k].created_at > 0

(* -------------------------------- C18 ---------------------------------- *)

\* C18: a stored record has a recipient exactly when its status is Claimed,
\* so an Active record is unbound and passes the recipient check for every
\* claimant, and no instruction ever returns InvalidRecipient.
C18_BoundIffClaimed ==
    /\ \A k \in DOMAIN escrow :
          /\ (escrow[k].recipient_wallet # None) <=> (escrow[k].status = "Claimed")
          /\ IsActive(escrow[k]) => \A u \in Users : RecipientMatches(escrow[k], u)
    /\ last.result # "InvalidRecipient"

\* A claim by an identity other than the bound one, made after the expiry with
\* the record's mint: it is the status check that rejects it.
C18_Witness ==
    \E k \in DOMAIN escrow :
        /\ last.op = "claim_escrow" /\ last.pda = k
        /\ escrow[k].status = "Claimed"
        /\ escrow[k].recipient_wallet \notin {None, last.signer}
        /\ ~RecipientMatches(escrow[k], last.signer)
        /\ now > escrow[k].expires_at
        /\ last.result = "EscrowNotActive"

(* -------------------------------- C19 ---------------------------------- *)

\* The sender's reclaim of the record of k, presenting the record's own mint
\* and returning Ok.
SenderReclaim(k) ==
    /\ StoredActive(k)
    /\ ReclaimExpiredEscrow(k, escrow[k].sender, escrow[k].token_mint)
    /\ last'.result = "Ok"

\* Callers keep sending instructions, time passes, and the sender's reclaim is
\* not postponed for ever once it can succeed.
FairSpec ==
    /\ Spec
    /\ WF_vars(Next)
    /\ WF_vars(Tick)
    /\ \A k \in Keys : WF_vars(SenderReclaim(k))

\* The record of k is Active for mint m, its custody account holds the amount,
\* and its expiry lies within the range of the clock.
Locked(k, m) ==
    /\ StoredActive(k)
    /\ escrow[k].token_mint = m
    /\ token[Ata(k, m)] >= escrow[k].amount
    /\ \E t \in Times : t > escrow[k].expires_at

\* A claim or a reclaim has just paid out of the custody account of k for m.
Released(k, m) ==
    /\ last.op \in {"claim_escrow", "reclaim_expired_escrow"}
    /\ last.pda = k
    /\ last.mint = m
    /\ last.result = "Ok"

\* C19: an amount locked in an Active record does not stay locked: when time
\* passes and the sender's reclaim is scheduled fairly, the amount is eventually
\* paid to a claimant or returned to the sender.
C19_LockedIsReleased ==
    \A k \in Keys, m \in Mints : Locked(k, m) ~> Released(k, m)

====
